---- MODULE Spec2Model ----
(***************************************************************************)
(* ClimaSentinel: severity classifier, alert ledger (create-if-absent,     *)
(* mark-sent) and the /alerts/check request handler, modelled from         *)
(* src/src/services/alert_service.py, src/src/models/alert.py and          *)
(* src/src/routes/alert_routes.py.                                         *)
(*                                                                         *)
(* Numbers are whole units (degrees C, km/h, mm, percent); time is whole   *)
(* hours. A text is the set of the keywords it contains as substrings      *)
(* after lower-casing, which is all the code ever asks of a text.          *)
(***************************************************************************)
EXTENDS Integers, Sequences, FiniteSets, TLC

\* ------------------------------------------------------------------ bounds
MaxTime   == 12     \* clock values 0..MaxTime (hours)
TickHours == 6      \* hours between two observations of the clock
MaxAlerts == 2      \* rows the alerts table may hold

\* concurrent /alerts/check requests, and the locations they ask about
Procs == {"p1", "p2"}
Locations == {"chennai", "jaffna"}

\* ------------------------------------------------------- program constants
temperature_high       == 40
temperature_low        == -10
wind_speed_high        == 70
wind_speed_critical    == 118
precipitation_high     == 15
precipitation_moderate == 5
precipitation_critical == 50
cloud_cover_full       == 90
DedupWindowHours       == 6
ExpiryHours            == 24

SEVERE_THRESHOLDS ==
  [temperature_high       |-> temperature_high,
   temperature_low        |-> temperature_low,
   wind_speed_high        |-> wind_speed_high,
   wind_speed_critical    |-> wind_speed_critical,
   precipitation_high     |-> precipitation_high,
   precipitation_moderate |-> precipitation_moderate,
   precipitation_critical |-> precipitation_critical,
   cloud_cover_full       |-> cloud_cover_full]

SeverityLevel == {"low", "medium", "high", "critical"}
AlertType == {"hurricane", "flood", "tornado", "earthquake", "tsunami", "heatwave",
              "wildfire", "storm", "heavy_rain", "snow", "cyclone"}

\* "word in text" for a text given as the set of keywords it contains
ContainsAny(text, words) == text \cap words # {}

\* The value _analyze_conditions returns when no rule fires (Python None)
NoAlert == [alert_type |-> "none", severity |-> "none", title |-> "none"]

\* forecast_severity of a payload that carries none ({} in the code)
NoForecast ==
  [has_severe_forecast |-> FALSE, max_wind_24h |-> 0, total_precipitation_24h |-> 0,
   max_precipitation_3h |-> 0, severe_conditions |-> <<>>]

create_alert_data(alert_type, severity, title) ==
  [alert_type |-> alert_type, severity |-> severity, title |-> title]

\* OfficialAlertRule with "yellow" dropped from the words that lower the severity
OfficialAlertRule_no_yellow(weather_alerts) ==
  LET alert_event == weather_alerts[1].event
      severity == IF ContainsAny(alert_event, {"watch", "advisory"})
                  THEN "high" ELSE "critical"
      alert_type == IF ContainsAny(alert_event, {"cyclone", "hurricane", "typhoon"})
                    THEN "hurricane" ELSE "storm"
  IN  create_alert_data(alert_type, severity, "OFFICIAL ALERT")

\* rule 1: official alerts, decided on the first alert's event text
OfficialAlertRule(weather_alerts) ==
  LET alert_event == weather_alerts[1].event
      severity == IF ContainsAny(alert_event, {"watch", "advisory", "yellow"})
                  THEN "high"
                  ELSE IF ContainsAny(alert_event, {"warning", "red", "cyclone", "hurricane"})
                       THEN "critical"
                       ELSE "critical"
      alert_type == IF ContainsAny(alert_event, {"cyclone", "hurricane", "typhoon"})
                    THEN "hurricane" ELSE "storm"
  IN  create_alert_data(alert_type, severity, "OFFICIAL ALERT")

\* any("cyclone" in str(c).lower() or "hurricane" in str(c).lower() for c in severe_conditions)
NamesCyclone(severe_conditions) ==
  \E i \in 1..Len(severe_conditions) :
     ContainsAny(severe_conditions[i], {"cyclone", "hurricane"})

\* rule 2: severe forecast; NoAlert when the block falls through
ForecastRule(forecast_severity) ==
  LET max_wind_24h == forecast_severity.max_wind_24h
      total_precip_24h == forecast_severity.total_precipitation_24h
  IN  IF max_wind_24h > 100 \/ total_precip_24h > 50
         \/ NamesCyclone(forecast_severity.severe_conditions)
      THEN create_alert_data("hurricane", "critical", "SEVERE WEATHER WARNING")
      ELSE IF max_wind_24h > 60 \/ total_precip_24h > 30
           THEN create_alert_data("storm", "high", "SEVERE WEATHER ALERT")
           ELSE NoAlert

\* rules 7..10: the compound rain rule, storm, wind advisory and cold
LowerRules(metrics) ==
  LET temp == metrics.temperature
      wind_speed == metrics.wind_speed
      precipitation == metrics.precipitation
      humidity == metrics.humidity
      cloud_cover == metrics.cloud_cover
  IN  IF precipitation >= SEVERE_THRESHOLDS.precipitation_moderate
         /\ humidity >= 85 /\ cloud_cover >= SEVERE_THRESHOLDS.cloud_cover_full
      THEN create_alert_data("heavy_rain", "medium", "Severe Weather - Heavy Rain Expected")
      ELSE IF wind_speed >= SEVERE_THRESHOLDS.wind_speed_high /\ precipitation >= 5
      THEN create_alert_data("storm", "high", "Severe Storm Warning")
      ELSE IF wind_speed >= SEVERE_THRESHOLDS.wind_speed_high
      THEN create_alert_data("storm", "medium", "High Wind Advisory")
      ELSE IF temp <= SEVERE_THRESHOLDS.temperature_low
      THEN create_alert_data("snow", IF temp <= -20 THEN "medium" ELSE "low",
                             "Extreme Cold Warning")
      ELSE NoAlert

\* ThresholdRules with the flood check moved in front of the wind and heat checks
ThresholdRules_flood_first(metrics) ==
  LET temp == metrics.temperature
      wind_speed == metrics.wind_speed
      precipitation == metrics.precipitation
  IN  IF precipitation >= SEVERE_THRESHOLDS.precipitation_critical
      THEN create_alert_data("flood", "critical", "Flash Flood Warning")
      ELSE IF wind_speed >= SEVERE_THRESHOLDS.wind_speed_critical
      THEN create_alert_data("hurricane", "critical", "Hurricane Force Winds Detected")
      ELSE IF temp >= SEVERE_THRESHOLDS.temperature_high
      THEN create_alert_data("heatwave", IF temp >= 45 THEN "critical" ELSE "high",
                             "Extreme Heat Warning")
      ELSE IF precipitation >= SEVERE_THRESHOLDS.precipitation_high
      THEN create_alert_data("heavy_rain", IF precipitation >= 25 THEN "high" ELSE "medium",
                             "Heavy Rainfall Alert")
      ELSE LowerRules(metrics)

\* ThresholdRules with the hurricane-force check made strict (> 118)
ThresholdRules_strict_wind(metrics) ==
  LET temp == metrics.temperature
      wind_speed == metrics.wind_speed
      precipitation == metrics.precipitation
  IN  IF wind_speed > SEVERE_THRESHOLDS.wind_speed_critical
      THEN create_alert_data("hurricane", "critical", "Hurricane Force Winds Detected")
      ELSE IF temp >= SEVERE_THRESHOLDS.temperature_high
      THEN create_alert_data("heatwave", IF temp >= 45 THEN "critical" ELSE "high",
                             "Extreme Heat Warning")
      ELSE IF precipitation >= SEVERE_THRESHOLDS.precipitation_critical
      THEN create_alert_data("flood", "critical", "Flash Flood Warning")
      ELSE IF precipitation >= SEVERE_THRESHOLDS.precipitation_high
      THEN create_alert_data("heavy_rain", IF precipitation >= 25 THEN "high" ELSE "medium",
                             "Heavy Rainfall Alert")
      ELSE LowerRules(metrics)

\* ThresholdRules with the heavy-rain severity split at 20 mm instead of 25 mm
ThresholdRules_high_at_20(metrics) ==
  LET temp == metrics.temperature
      wind_speed == metrics.wind_speed
      precipitation == metrics.precipitation
  IN  IF wind_speed >= SEVERE_THRESHOLDS.wind_speed_critical
      THEN create_alert_data("hurricane", "critical", "Hurricane Force Winds Detected")
      ELSE IF temp >= SEVERE_THRESHOLDS.temperature_high
      THEN create_alert_data("heatwave", IF temp >= 45 THEN "critical" ELSE "high",
                             "Extreme Heat Warning")
      ELSE IF precipitation >= SEVERE_THRESHOLDS.precipitation_critical
      THEN create_alert_data("flood", "critical", "Flash Flood Warning")
      ELSE IF precipitation >= SEVERE_THRESHOLDS.precipitation_high
      THEN create_alert_data("heavy_rain", IF precipitation >= 20 THEN "high" ELSE "medium",
                             "Heavy Rainfall Alert")
      ELSE LowerRules(metrics)

\* rules 3..6: hurricane-force wind, heat, flood and heavy rain, then rules 7..10
ThresholdRules(metrics) ==
  LET temp == metrics.temperature
      wind_speed == metrics.wind_speed
      precipitation == metrics.precipitation
  IN  IF wind_speed >= SEVERE_THRESHOLDS.wind_speed_critical
      THEN create_alert_data("hurricane", "critical", "Hurricane Force Winds Detected")
      ELSE IF temp >= SEVERE_THRESHOLDS.temperature_high
      THEN create_alert_data("heatwave", IF temp >= 45 THEN "critical" ELSE "high",
                             "Extreme Heat Warning")
      ELSE IF precipitation >= SEVERE_THRESHOLDS.precipitation_critical
      THEN create_alert_data("flood", "critical", "Flash Flood Warning")
      ELSE IF precipitation >= SEVERE_THRESHOLDS.precipitation_high
      THEN create_alert_data("heavy_rain", IF precipitation >= 25 THEN "high" ELSE "medium",
                             "Heavy Rainfall Alert")
      ELSE LowerRules(metrics)

\* AlertService._analyze_conditions(metrics, location, geo_data, weather_data)
analyze_conditions(metrics, weather_alerts, forecast_severity) ==
  IF weather_alerts # <<>>
  THEN OfficialAlertRule(weather_alerts)
  ELSE IF forecast_severity.has_severe_forecast
          /\ ForecastRule(forecast_severity) # NoAlert
       THEN ForecastRule(forecast_severity)
       ELSE ThresholdRules(metrics)


\* ------------------------------------------------------ metrics extraction
Max(a, b) == IF a >= b THEN a ELSE b

\* a dict field that may be missing: dict.get(key, default)
Absent == -1
GetOr(v, default) == IF v = Absent THEN default ELSE v

RainWords == {"rain", "drizzle", "shower", "thunderstorm"}

\* the dict branch with the forecast wind adjustment left out
extract_weather_metrics_no_wind(weather_data) ==
  LET condition == weather_data.condition
      weather_desc == weather_data.weather
      weather_alerts == weather_data.alerts
      forecast_severity == weather_data.forecast_severity
      use_forecast == weather_alerts # <<>> \/ forecast_severity.has_severe_forecast
      precip1 == IF use_forecast /\ forecast_severity.total_precipitation_24h > 30
                 THEN Max(weather_data.precipitation,
                          GetOr(forecast_severity.max_precipitation_3h, 15))
                 ELSE weather_data.precipitation
      wind1 == weather_data.wind_speed
      precip2 == IF precip1 = 0 /\ (ContainsAny(condition, RainWords)
                                    \/ ContainsAny(weather_desc, RainWords))
                 THEN IF "heavy" \in condition \/ "heavy" \in weather_desc THEN 15
                      ELSE IF "moderate" \in condition \/ "moderate" \in weather_desc THEN 8
                      ELSE IF "light" \in condition \/ "light" \in weather_desc
                              \/ "drizzle" \in condition THEN 3
                      ELSE 5
                 ELSE precip1
  IN  [temperature |-> weather_data.temperature,
       wind_speed |-> wind1,
       precipitation |-> precip2,
       humidity |-> weather_data.humidity,
       cloud_cover |-> weather_data.cloud_cover]

\* AlertService._extract_weather_metrics, the branch for a dict payload
extract_weather_metrics(weather_data) ==
  LET condition == weather_data.condition
      weather_desc == weather_data.weather
      weather_alerts == weather_data.alerts
      forecast_severity == weather_data.forecast_severity
      use_forecast == weather_alerts # <<>> \/ forecast_severity.has_severe_forecast
      precip1 == IF use_forecast /\ forecast_severity.total_precipitation_24h > 30
                 THEN Max(weather_data.precipitation,
                          GetOr(forecast_severity.max_precipitation_3h, 15))
                 ELSE weather_data.precipitation
      wind1 == IF use_forecast /\ forecast_severity.max_wind_24h > weather_data.wind_speed
               THEN Max(weather_data.wind_speed, forecast_severity.max_wind_24h)
               ELSE weather_data.wind_speed
      precip2 == IF precip1 = 0 /\ (ContainsAny(condition, RainWords)
                                    \/ ContainsAny(weather_desc, RainWords))
                 THEN IF "heavy" \in condition \/ "heavy" \in weather_desc THEN 15
                      ELSE IF "moderate" \in condition \/ "moderate" \in weather_desc THEN 8
                      ELSE IF "light" \in condition \/ "light" \in weather_desc
                              \/ "drizzle" \in condition THEN 3
                      ELSE 5
                 ELSE precip1
  IN  [temperature |-> weather_data.temperature,
       wind_speed |-> wind1,
       precipitation |-> precip2,
       humidity |-> weather_data.humidity,
       cloud_cover |-> weather_data.cloud_cover]

\* the metrics dict _extract_weather_metrics starts from
DefaultMetrics ==
  [temperature |-> 0, wind_speed |-> 0, precipitation |-> 0, humidity |-> 0,
   cloud_cover |-> 0]

\* values a payload dict may hold under a metric key: a number, nothing (the
\* key is missing), None, or a string (v is the number it spells, Absent when
\* it spells none)
Num(v)  == [tag |-> "num", v |-> v]
Missing == [tag |-> "missing", v |-> 0]
Null    == [tag |-> "null", v |-> 0]
Str(v)  == [tag |-> "str", v |-> v]

\* float(weather_data.get(key, 0)): the value, or the exception float raises
FloatOf(x) ==
  IF x.tag = "num" THEN [exc |-> "none", v |-> x.v]
  ELSE IF x.tag = "missing" THEN [exc |-> "none", v |-> 0]
  ELSE IF x.tag = "null" THEN [exc |-> "TypeError", v |-> 0]
  ELSE IF x.v = Absent THEN [exc |-> "ValueError", v |-> 0]
  ELSE [exc |-> "none", v |-> x.v]

\* the keys in the order the dict branch converts them
MetricKeys == <<"temperature", "wind_speed", "precipitation", "humidity", "cloud_cover">>

\* the label each regular expression of the string branch looks for
MetricLabels ==
  [temperature |-> "temperature", wind_speed |-> "wind", precipitation |-> "precipitation",
   humidity |-> "humidity", cloud_cover |-> "cloud"]

\* a free-text payload is the keywords it contains and its labelled tokens
\* "<label>: <sign><digits>" in reading order; digits is Absent when the label
\* is followed by something that is not a number.
\* re.search(label[:\s]+(\d+\.?\d*)): the first token of the label that holds
\* a number; only the temperature pattern accepts a minus sign
TextMatches(text, key) ==
  { i \in DOMAIN text.tokens :
      /\ text.tokens[i].label = MetricLabels[key]
      /\ text.tokens[i].digits # Absent
      /\ (text.tokens[i].neg => key = "temperature") }

Least(S) == CHOOSE i \in S : \A j \in S : i <= j

TextValue(text, key) ==
  LET found == TextMatches(text, key)
  IN  IF found = {} THEN 0
      ELSE LET tok == text.tokens[Least(found)]
           IN  IF tok.neg THEN 0 - tok.digits ELSE tok.digits

\* _extract_weather_metrics, the branch for a str payload
extract_from_text(text) == [ key \in DOMAIN DefaultMetrics |-> TextValue(text, key) ]

\* the first key of the dict whose conversion raises, 0 when none does
FirstRaising(d) ==
  LET bad == { i \in DOMAIN MetricKeys : FloatOf(d[MetricKeys[i]]).exc # "none" }
  IN  IF bad = {} THEN 0 ELSE Least(bad)

\* the metrics assigned before the conversion of key number n raised
ConvertedBefore(d, n) ==
  [ key \in DOMAIN DefaultMetrics |->
      IF \E i \in 1..(n - 1) : MetricKeys[i] = key THEN FloatOf(d[key]).v ELSE 0 ]

\* _extract_weather_metrics, the branch for a dict payload, with the
\* conversions of its values and the exceptions the function catches
extract_from_dict(d) ==
  LET n == FirstRaising(d)
  IN  IF n # 0
      THEN IF FloatOf(d[MetricKeys[n]]).exc = "ValueError"
           THEN [raised |-> "none", metrics |-> ConvertedBefore(d, n)]
           ELSE [raised |-> "TypeError", metrics |-> DefaultMetrics]
      ELSE IF d.condition.tag = "null" \/ d.weather.tag = "null"
      THEN \* None.lower(): AttributeError, caught
           [raised |-> "none", metrics |-> ConvertedBefore(d, Len(MetricKeys) + 1)]
      ELSE [raised |-> "none",
            metrics |->
              extract_weather_metrics(
                [temperature |-> FloatOf(d.temperature).v,
                 wind_speed |-> FloatOf(d.wind_speed).v,
                 precipitation |-> FloatOf(d.precipitation).v,
                 humidity |-> FloatOf(d.humidity).v,
                 cloud_cover |-> FloatOf(d.cloud_cover).v,
                 condition |-> d.condition.words,
                 weather |-> d.weather.words,
                 alerts |-> d.alerts,
                 forecast_severity |-> d.forecast_severity])]

\* AlertService._extract_weather_metrics(weather_data) for a payload of any type
ExtractWeatherMetrics(weather_data) ==
  IF weather_data.type = "str"
  THEN [raised |-> "none", metrics |-> extract_from_text(weather_data)]
  ELSE IF weather_data.type = "dict"
  THEN extract_from_dict(weather_data)
  ELSE [raised |-> "none", metrics |-> DefaultMetrics]

\* what analyze_weather_for_alerts returns when it has no alert to report
NoCand == [alert_type |-> "none", severity |-> "none", title |-> "none",
           location |-> "none", temperature |-> 0, wind_speed |-> 0,
           precipitation |-> 0, humidity |-> 0]

\* geocode_location: None when the key is missing, nothing matches or the
\* provider fails, the place found otherwise
NoGeo == [found |-> FALSE, name |-> "none"]
geocode_location(location) == { NoGeo, [found |-> TRUE, name |-> location] }

\* AlertService.analyze_weather_for_alerts on the payload get_weather_data
\* returned and the result of geocode_location
analyze_weather_for_alerts(location, weather_data, geo_data) ==
  IF ~weather_data.success
  THEN NoCand
  ELSE IF geo_data = NoGeo
  THEN NoCand
  ELSE LET weather_info == extract_weather_metrics(weather_data)
           alert_data == analyze_conditions(weather_info, weather_data.alerts,
                                            weather_data.forecast_severity)
       IN  IF alert_data = NoAlert
           THEN NoCand
           ELSE [alert_type |-> alert_data.alert_type,
                 severity |-> alert_data.severity,
                 title |-> alert_data.title,
                 location |-> location,
                 temperature |-> weather_info.temperature,
                 wind_speed |-> weather_info.wind_speed,
                 precipitation |-> weather_info.precipitation,
                 humidity |-> weather_info.humidity]

\* payloads the weather provider hands to the /alerts/check handler
Payload(ok, temp, wind, precip) ==
  [success |-> ok, temperature |-> temp, wind_speed |-> wind, precipitation |-> precip,
   humidity |-> 60, cloud_cover |-> 40, condition |-> {}, weather |-> {},
   alerts |-> <<>>, forecast_severity |-> NoForecast]

RouteWeather(location) ==
  IF location = "chennai"
  THEN { Payload(TRUE, 25, 10, 0),      \* calm
         Payload(TRUE, 25, 10, 20),     \* heavy rain
         Payload(TRUE, 25, 10, 60),     \* flood
         Payload(FALSE, 0, 0, 0) }      \* provider failure
  ELSE { Payload(TRUE, 25, 10, 30) }    \* heavier rain

\* ------------------------------------------------------------------- state
VARIABLES
  now,        \* datetime.utcnow(), in hours
  alerts,     \* the alerts table: row i has primary key i
  pc,         \* where each /alerts/check request stands: idle, select, insert, task
  cand,       \* the alert_data each request carries into create_alert
  resp,       \* the response of each request, NoResp while it is being computed
  markRes,    \* what the last direct mark_alert_as_sent call returned
  input,      \* the argument of the function exercised on its own
  outcome     \* what the function returned for input

vars == <<now, alerts, pc, cand, resp, markRes, input, outcome>>

NoResp == [kind |-> "none", alert_id |-> 0]
NoMark == "none"
\* outcome before the classifier has run
Unclassified == [alert_type |-> "pending", severity |-> "pending", title |-> "pending"]

NoInput == [metrics |-> [temperature |-> 0, wind_speed |-> 0, precipitation |-> 0,
                         humidity |-> 0, cloud_cover |-> 0],
            alerts |-> <<>>, forecast_severity |-> NoForecast]

Init ==
  /\ now = 0
  /\ alerts = <<>>
  /\ pc = [p \in Procs |-> "idle"]
  /\ cand = [p \in Procs |-> NoCand]
  /\ resp = [p \in Procs |-> NoResp]
  /\ markRes = NoMark
  /\ input = NoInput
  /\ outcome = Unclassified

\* the clock advances
Tick ==
  /\ now + TickHours <= MaxTime
  /\ now' = now + TickHours
  /\ UNCHANGED <<alerts, pc, cand, resp, markRes, input, outcome>>

\* check_location_for_alerts up to the first await inside create_alert
check_location_for_alerts(p) ==
  /\ pc[p] = "idle"
  /\ \E location \in Locations : \E weather_data \in RouteWeather(location) :
     \E geo_data \in geocode_location(location) :
       LET alert_data == analyze_weather_for_alerts(location, weather_data, geo_data)
       IN  IF alert_data = NoCand
           THEN /\ resp' = [resp EXCEPT ![p] = [kind |-> "no_alert", alert_id |-> 0]]
                /\ UNCHANGED <<pc, cand>>
           ELSE /\ pc' = [pc EXCEPT ![p] = "select"]
                /\ cand' = [cand EXCEPT ![p] = alert_data]
                /\ resp' = [resp EXCEPT ![p] = NoResp]
  /\ UNCHANGED <<now, alerts, markRes, input, outcome>>

\* ExistingAlerts with the detected_at filter left out of the query
ExistingAlerts_no_window(rows, alert_data, t) ==
  { i \in DOMAIN rows :
      /\ rows[i].location = alert_data.location
      /\ rows[i].alert_type = alert_data.alert_type
      /\ rows[i].is_active }

\* the rows the "similar active alert" query of create_alert selects
ExistingAlerts(rows, alert_data, t) ==
  { i \in DOMAIN rows :
      /\ rows[i].location = alert_data.location
      /\ rows[i].alert_type = alert_data.alert_type
      /\ rows[i].is_active
      /\ rows[i].detected_at >= t - DedupWindowHours }

\* create_alert: execute the query; scalar_one_or_none raises on several rows
create_alert_select(p) ==
  /\ pc[p] = "select"
  /\ LET found == ExistingAlerts(alerts, cand[p], now)
     IN  IF Cardinality(found) > 1
         THEN \* MultipleResultsFound: rollback, re-raise, HTTP 500
              /\ resp' = [resp EXCEPT ![p] = [kind |-> "error", alert_id |-> 0]]
              /\ pc' = [pc EXCEPT ![p] = "idle"]
              /\ cand' = [cand EXCEPT ![p] = NoCand]
         ELSE IF Cardinality(found) = 1
         THEN \* return existing_alert; the route queues the notification task
              LET id == CHOOSE i \in found : TRUE
              IN  /\ resp' = [resp EXCEPT ![p] = [kind |-> "alert", alert_id |-> id]]
                  /\ pc' = [pc EXCEPT ![p] = "task"]
                  /\ cand' = [cand EXCEPT ![p] = NoCand]
         ELSE /\ pc' = [pc EXCEPT ![p] = "insert"]
              /\ UNCHANGED <<cand, resp>>
  /\ UNCHANGED <<now, alerts, markRes, input, outcome>>

\* the row create_alert builds from alert_data
NewAlert(id, alert_data, t) ==
  [id |-> id,
   alert_type |-> alert_data.alert_type,
   severity |-> alert_data.severity,
   title |-> alert_data.title,
   location |-> alert_data.location,
   temperature |-> alert_data.temperature,
   wind_speed |-> alert_data.wind_speed,
   precipitation |-> alert_data.precipitation,
   humidity |-> alert_data.humidity,
   is_active |-> TRUE,
   is_sent |-> FALSE,
   detected_at |-> t,
   expires_at |-> t + ExpiryHours,
   sent_at |-> Absent]

\* create_alert: add, commit, refresh; the route then queues the notification task
create_alert_insert(p) ==
  /\ pc[p] = "insert"
  /\ Len(alerts) < MaxAlerts
  /\ LET id == Len(alerts) + 1
     IN  /\ alerts' = Append(alerts, NewAlert(id, cand[p], now))
         /\ resp' = [resp EXCEPT ![p] = [kind |-> "alert", alert_id |-> id]]
  /\ pc' = [pc EXCEPT ![p] = "task"]
  /\ cand' = [cand EXCEPT ![p] = NoCand]
  /\ UNCHANGED <<now, markRes, input, outcome>>

\* MarkSent that stamps sent_at but forgets the is_sent flag
MarkSent_no_flag(rows, alert_id, t) ==
  IF alert_id \in DOMAIN rows
  THEN [rows EXCEPT ![alert_id].sent_at = t]
  ELSE rows

\* mark_alert_as_sent: the table after the call
MarkSent(rows, alert_id, t) ==
  IF alert_id \in DOMAIN rows
  THEN [rows EXCEPT ![alert_id].is_sent = TRUE, ![alert_id].sent_at = t]
  ELSE rows

\* mark_alert_as_sent: the value the call returns
MarkSentResult(rows, alert_id) == alert_id \in DOMAIN rows

\* AlertService.mark_alert_as_sent(alert_id), called with any id
mark_alert_as_sent(alert_id) ==
  /\ alerts' = MarkSent(alerts, alert_id, now)
  /\ markRes' = IF MarkSentResult(alerts, alert_id) THEN "true" ELSE "false"
  /\ UNCHANGED <<now, pc, cand, resp, input, outcome>>

\* send_alert_notifications_task(alert.id), run after the response of request p:
\* load the alert, notify, mark it sent; the request is then over
send_alert_notifications_task(p) ==
  /\ pc[p] = "task"
  /\ LET alert_id == resp[p].alert_id
     IN  alerts' = IF alert_id \in DOMAIN alerts
                   THEN MarkSent(alerts, alert_id, now)
                   ELSE alerts
  /\ pc' = [pc EXCEPT ![p] = "idle"]
  /\ resp' = [resp EXCEPT ![p] = NoResp]
  /\ UNCHANGED <<now, cand, markRes, input, outcome>>

Next ==
  \/ Tick
  \/ \E p \in Procs : check_location_for_alerts(p)
  \/ \E p \in Procs : create_alert_select(p)
  \/ \E p \in Procs : create_alert_insert(p)
  \/ \E alert_id \in 1..(MaxAlerts + 1) : mark_alert_as_sent(alert_id)
  \/ \E p \in Procs : send_alert_notifications_task(p)

Spec == Init /\ [][Next]_vars

\* ---------------------------------------------------- ledger properties
\* the stored active alerts of a (location, alertType) pair detected within
\* the last 6 hours before t
ActiveInWindow(location, alert_type, t) ==
  { i \in DOMAIN alerts :
      /\ alerts[i].location = location
      /\ alerts[i].alert_type = alert_type
      /\ alerts[i].is_active
      /\ t - alerts[i].detected_at <= 6 }

\* the stored active alerts of a pair detected more than 6 hours before t
ActiveBeforeWindow(location, alert_type, t) ==
  { i \in DOMAIN alerts :
      /\ alerts[i].location = location
      /\ alerts[i].alert_type = alert_type
      /\ alerts[i].is_active
      /\ t - alerts[i].detected_at > 6 }

\* request p leaves the step of create_alert it stands at
Leaves(p, step) == pc[p] = step /\ pc'[p] # step

\* C1: for every (location, alertType) pair at most one stored alert is
\* active with detectedAt within the last 6 hours.
C1_AtMostOneActiveInWindow ==
  \A i \in DOMAIN alerts :
    Cardinality(ActiveInWindow(alerts[i].location, alerts[i].alert_type, now)) <= 1

\* C2: a create_alert call that passed the "not found" check and reaches its
\* insert after another call stored an alert for the same pair persists
\* nothing and returns the stored alert.
C2_LoserReturnsWinner ==
  [][\A p \in Procs :
       (Leaves(p, "insert")
        /\ ActiveInWindow(cand[p].location, cand[p].alert_type, now) # {})
       => /\ alerts' = alerts
          /\ resp'[p].kind = "alert"
          /\ resp'[p].alert_id \in ActiveInWindow(cand[p].location, cand[p].alert_type, now)
    ]_vars

\* C3: a create_alert call made while an active alert of the same pair,
\* detected within the last 6 hours, is stored returns that alert's id,
\* persists nothing and changes no stored field, whatever the candidate's
\* severity, title and metrics are.
C3_SecondCallReturnsSameAlert ==
  [][\A p \in Procs :
       (Leaves(p, "select")
        /\ ActiveInWindow(cand[p].location, cand[p].alert_type, now) # {})
       => /\ alerts' = alerts
          /\ resp'[p].kind = "alert"
          /\ resp'[p].alert_id \in ActiveInWindow(cand[p].location, cand[p].alert_type, now)
    ]_vars

\* C4: when every active alert of the pair was detected more than 6 hours
\* ago, create_alert does not return the old alert: it goes on to its insert,
\* and the insert persists a new active, unsent alert for the pair, detected
\* now, under an id no stored alert has, and returns that id.
C4_NewAlertAfterWindow ==
  [][\A p \in Procs :
       /\ (Leaves(p, "select")
           /\ ActiveBeforeWindow(cand[p].location, cand[p].alert_type, now) # {}
           /\ ActiveInWindow(cand[p].location, cand[p].alert_type, now) = {})
          => (pc'[p] = "insert" /\ alerts' = alerts)
       /\ Leaves(p, "insert")
          => /\ Len(alerts') = Len(alerts) + 1
             /\ \A i \in DOMAIN alerts : alerts'[i] = alerts[i]
             /\ LET a == alerts'[Len(alerts')]
                IN  /\ \A i \in DOMAIN alerts : alerts[i].id # a.id
                    /\ a.location = cand[p].location
                    /\ a.alert_type = cand[p].alert_type
                    /\ a.severity = cand[p].severity
                    /\ a.is_active /\ ~a.is_sent
                    /\ a.detected_at = now
                    /\ resp'[p] = [kind |-> "alert", alert_id |-> a.id]
    ]_vars

\* a request was answered with a new alert while an older, already notified
\* alert of the same pair lies more than 6 hours before it
C4_Witness ==
  \E p \in Procs :
    /\ pc[p] = "task"
    /\ resp[p].alert_id = Len(alerts)
    /\ \E j \in DOMAIN alerts :
         /\ j < Len(alerts)
         /\ alerts[j].location = alerts[Len(alerts)].location
         /\ alerts[j].alert_type = alerts[Len(alerts)].alert_type
         /\ alerts[j].is_active /\ alerts[j].is_sent
         /\ alerts[Len(alerts)].detected_at - alerts[j].detected_at > 6

\* C5: create_alert never surfaces an error to its caller.
C5_NeverAnError ==
  \A p \in Procs : resp[p].kind # "error"

\* C6: mark_alert_as_sent on a stored alert returns true and leaves it with
\* isSent = true and sentAt set, already sent or not, touching nothing else;
\* on an id no alert has it returns false and the table is unchanged.
C6_MarkSent ==
  [][\A alert_id \in 1..(MaxAlerts + 1) :
       mark_alert_as_sent(alert_id)
       => IF alert_id \in DOMAIN alerts
          THEN /\ markRes' = "true"
               /\ alerts'[alert_id].is_sent
               /\ alerts'[alert_id].sent_at # Absent
               /\ DOMAIN alerts' = DOMAIN alerts
               /\ \A i \in DOMAIN alerts : i # alert_id => alerts'[i] = alerts[i]
               /\ [alerts'[alert_id] EXCEPT !.is_sent = FALSE, !.sent_at = Absent]
                    = [alerts[alert_id] EXCEPT !.is_sent = FALSE, !.sent_at = Absent]
          ELSE /\ markRes' = "false"
               /\ alerts' = alerts
    ]_vars

\* a direct call succeeded on an alert some time after its detection
C6_Witness ==
  /\ markRes = "true"
  /\ \E i \in DOMAIN alerts :
       alerts[i].is_sent /\ alerts[i].sent_at > alerts[i].detected_at

\* C18: a trigger that create_alert folds into a stored alert of its
\* (location, alertType) pair, detected within the window, does not queue
\* another notification fan-out for that alert.
C18_FoldedTriggerNoFanOut ==
  [][\A p \in Procs :
       (Leaves(p, "select")
        /\ ActiveInWindow(cand[p].location, cand[p].alert_type, now) # {})
       => pc'[p] # "task"
    ]_vars

\* --------------------------------------------- the classifier on its own
\* metric values on either side of every threshold of _analyze_conditions
TempValues     == {-21, -20, -19, -10, -9, 25, 39, 40, 44, 45}
WindValues     == {10, 69, 70, 117, 118, 130}
PrecipValues   == {0, 4, 5, 14, 15, 20, 24, 25, 49, 50, 60}
HumidityValues == {60, 84, 85}
CloudValues    == {40, 89, 90}

Metrics(t, w, pr, h, c) ==
  [temperature |-> t, wind_speed |-> w, precipitation |-> pr, humidity |-> h,
   cloud_cover |-> c]

AllMetrics ==
  { Metrics(t, w, pr, h, c) : t \in TempValues, w \in WindValues, pr \in PrecipValues,
                              h \in HumidityValues, c \in CloudValues }

\* one metric set for each threshold rule, and a nominal one
SomeMetrics ==
  { Metrics(25, 10, 0, 60, 40),  Metrics(25, 118, 0, 60, 40), Metrics(45, 118, 60, 85, 90),
    Metrics(40, 10, 0, 60, 40),  Metrics(45, 70, 5, 60, 40),  Metrics(25, 10, 50, 60, 40),
    Metrics(25, 10, 25, 60, 40), Metrics(25, 10, 15, 60, 40), Metrics(25, 10, 5, 85, 90),
    Metrics(25, 70, 5, 60, 40),  Metrics(25, 70, 0, 60, 40),  Metrics(-10, 10, 0, 60, 40),
    Metrics(-20, 10, 0, 60, 40) }

\* event texts of official alerts, each given by the keywords it contains
EventTexts ==
  { {}, {"watch"}, {"advisory"}, {"yellow"}, {"warning"}, {"red"}, {"cyclone"},
    {"hurricane"}, {"typhoon"}, {"hurricane", "watch"}, {"cyclone", "warning"},
    {"typhoon", "advisory"}, {"yellow", "red"}, {"cyclone", "yellow"} }

AlertSignals ==
  {<<>>} \cup { <<[event |-> e]>> : e \in EventTexts }
         \cup { <<[event |-> {"watch"}], [event |-> {"cyclone"}]>>,
                <<[event |-> {"cyclone"}], [event |-> {"watch"}]>> }

ForecastWinds   == {0, 60, 61, 100, 101}
ForecastPrecips == {0, 30, 31, 50, 51}
ForecastConditions ==
  { <<>>, <<{"storm"}>>, <<{"cyclone"}>>, <<{"typhoon"}>>, <<{"thunder"}, {"hurricane"}>> }

\* forecast_severity records as check_forecast_for_severe_conditions builds them:
\* the flag is set whenever a condition is listed, wind > 60 or precipitation > 30
ForecastSignals ==
  { fs \in [has_severe_forecast : BOOLEAN, max_wind_24h : ForecastWinds,
            total_precipitation_24h : ForecastPrecips, max_precipitation_3h : {0},
            severe_conditions : ForecastConditions] :
      (fs.severe_conditions # <<>> \/ fs.max_wind_24h > 60
         \/ fs.total_precipitation_24h > 30) => fs.has_severe_forecast }

ClassifierInputs ==
  { [metrics |-> m, alerts |-> <<>>, forecast_severity |-> NoForecast] : m \in AllMetrics }
  \cup
  { [metrics |-> m, alerts |-> a, forecast_severity |-> fs] :
      m \in SomeMetrics, a \in AlertSignals, fs \in ForecastSignals }

InitClassify ==
  /\ now = 0
  /\ alerts = <<>>
  /\ pc = [p \in Procs |-> "idle"]
  /\ cand = [p \in Procs |-> NoCand]
  /\ resp = [p \in Procs |-> NoResp]
  /\ markRes = NoMark
  /\ input \in ClassifierInputs
  /\ outcome = Unclassified

\* one call of _analyze_conditions on the input
Classify ==
  /\ outcome = Unclassified
  /\ outcome' = analyze_conditions(input.metrics, input.alerts, input.forecast_severity)
  /\ UNCHANGED <<now, alerts, pc, cand, resp, markRes, input>>

NextClassify == Classify

SpecClassify == InitClassify /\ [][NextClassify]_vars

Classified == outcome # Unclassified

\* ------------------------------------------------ classifier properties
Verdict(o) == [alert_type |-> o.alert_type, severity |-> o.severity]
NoVerdict == [alert_type |-> "none", severity |-> "none"]

NoOfficialAlert == input.alerts = <<>>
NoForecastSignal == ~input.forecast_severity.has_severe_forecast

\* The documented rules 1..10 of the classifier as an ordered list of
\* (predicate, outcome) pairs; highWords are the words of an official alert's
\* event text that lower its severity to High.
DocumentedRules(inp, highWords) ==
  LET m == inp.metrics
      fs == inp.forecast_severity
      ev == IF inp.alerts # <<>> THEN inp.alerts[1].event ELSE {}
      danger == fs.max_wind_24h > 100 \/ fs.total_precipitation_24h > 50
                \/ \E i \in DOMAIN fs.severe_conditions :
                      "cyclone" \in fs.severe_conditions[i]
                      \/ "hurricane" \in fs.severe_conditions[i]
      stormy == fs.max_wind_24h > 60 \/ fs.total_precipitation_24h > 30
      R(holds, alert_type, severity) ==
        [holds |-> holds, alert_type |-> alert_type, severity |-> severity]
  IN  << R(inp.alerts # <<>>,
           IF ev \cap {"cyclone", "hurricane", "typhoon"} # {} THEN "hurricane" ELSE "storm",
           IF ev \cap highWords # {} THEN "high" ELSE "critical"),
         R(danger \/ stormy,
           IF danger THEN "hurricane" ELSE "storm",
           IF danger THEN "critical" ELSE "high"),
         R(m.wind_speed >= 118, "hurricane", "critical"),
         R(m.temperature >= 40, "heatwave",
           IF m.temperature >= 45 THEN "critical" ELSE "high"),
         R(m.precipitation >= 50, "flood", "critical"),
         R(m.precipitation >= 15, "heavy_rain",
           IF m.precipitation >= 25 THEN "high" ELSE "medium"),
         R(m.precipitation >= 5 /\ m.humidity >= 85 /\ m.cloud_cover >= 90,
           "heavy_rain", "medium"),
         R(m.wind_speed >= 70 /\ m.precipitation >= 5, "storm", "high"),
         R(m.wind_speed >= 70, "storm", "medium"),
         R(m.temperature <= -10, "snow",
           IF m.temperature <= -20 THEN "medium" ELSE "low") >>

Matching(rules) == { i \in DOMAIN rules : rules[i].holds }

\* the outcome of the lowest-numbered rule whose predicate holds
FirstMatch(rules) ==
  IF Matching(rules) = {}
  THEN NoVerdict
  ELSE LET k == CHOOSE i \in Matching(rules) : \A j \in Matching(rules) : i <= j
       IN  [alert_type |-> rules[k].alert_type, severity |-> rules[k].severity]

\* C7 as stated: the classifier returns the outcome of the lowest-numbered
\* documented rule that holds, rule 1 giving High only on "watch"/"advisory",
\* and no alert exactly when no rule holds.
C7_FirstDocumentedRuleWins ==
  Classified =>
    Verdict(outcome) = FirstMatch(DocumentedRules(input, {"watch", "advisory"}))

\* C7 amended: the same, with rule 1 giving High on "watch", "advisory" or
\* "yellow" in the event text of the first official alert.
C7_FirstRuleWinsYellowHigh ==
  Classified =>
    Verdict(outcome) = FirstMatch(DocumentedRules(input, {"watch", "advisory", "yellow"}))

\* several threshold rules hold at once and no signal rule does
C7_Witness ==
  /\ Classified
  /\ NoOfficialAlert
  /\ Cardinality(Matching(DocumentedRules(input, {"watch", "advisory", "yellow"}))) >= 3
  /\ ~DocumentedRules(input, {"watch", "advisory", "yellow"})[2].holds
  /\ outcome.alert_type = "heatwave"

\* C8: wind >= 118 km/h with no official alert and no severe-forecast signal
\* is classified (Hurricane, Critical) whatever the other metrics are.
C8_HurricaneForceWind ==
  (Classified /\ NoOfficialAlert /\ NoForecastSignal /\ input.metrics.wind_speed >= 118)
    => Verdict(outcome) = [alert_type |-> "hurricane", severity |-> "critical"]

\* wind exactly 118 together with extreme heat and flood-level rain
C8_Witness ==
  /\ Classified /\ NoOfficialAlert /\ NoForecastSignal
  /\ input.metrics.wind_speed = 118
  /\ input.metrics.temperature >= 45
  /\ input.metrics.precipitation >= 50
  /\ outcome.alert_type = "hurricane"

\* no signal, temperature and wind inside their thresholds
Nominal ==
  /\ NoOfficialAlert /\ NoForecastSignal
  /\ input.metrics.temperature > -10 /\ input.metrics.temperature < 40
  /\ input.metrics.wind_speed < 70

\* C9 as stated: nominal metrics with precipitation 60 mm give (Flood, Critical)
\* and with precipitation 20 mm give (HeavyRain, High).
C9_SixtyFloodTwentyHigh ==
  (Classified /\ Nominal) =>
    /\ input.metrics.precipitation = 60
         => Verdict(outcome) = [alert_type |-> "flood", severity |-> "critical"]
    /\ input.metrics.precipitation = 20
         => Verdict(outcome) = [alert_type |-> "heavy_rain", severity |-> "high"]

\* C9 amended: nominal metrics with precipitation 60 mm give (Flood, Critical)
\* and with precipitation 20 mm give (HeavyRain, Medium).
C9_SixtyFloodTwentyMedium ==
  (Classified /\ Nominal) =>
    /\ input.metrics.precipitation = 60
         => Verdict(outcome) = [alert_type |-> "flood", severity |-> "critical"]
    /\ input.metrics.precipitation = 20
         => Verdict(outcome) = [alert_type |-> "heavy_rain", severity |-> "medium"]

C9_Witness ==
  /\ Classified /\ Nominal
  /\ input.metrics.precipitation = 20
  /\ outcome.alert_type = "heavy_rain"

\* the type rule 1 derives from an event text
OfficialType(ev) ==
  IF ev \cap {"cyclone", "hurricane", "typhoon"} # {} THEN "hurricane" ELSE "storm"

\* C10 as stated: with an official alert present the severity is High if the
\* event text contains "watch" or "advisory" and Critical for every other
\* text, the type Hurricane on cyclone/hurricane/typhoon and Storm otherwise,
\* whatever the metrics and the forecast are.
C10_WatchAdvisoryOnly ==
  (Classified /\ ~NoOfficialAlert) =>
    LET ev == input.alerts[1].event
    IN  Verdict(outcome) =
          [alert_type |-> OfficialType(ev),
           severity |-> IF ev \cap {"watch", "advisory"} # {} THEN "high" ELSE "critical"]

\* C10 amended: the same, with severity High if the event text of the first
\* official alert contains "watch", "advisory" or "yellow".
C10_WatchAdvisoryYellow ==
  (Classified /\ ~NoOfficialAlert) =>
    LET ev == input.alerts[1].event
    IN  Verdict(outcome) =
          [alert_type |-> OfficialType(ev),
           severity |-> IF ev \cap {"watch", "advisory", "yellow"} # {}
                        THEN "high" ELSE "critical"]

\* a "yellow" alert over hurricane-force metrics and a dangerous forecast
C10_Witness ==
  /\ Classified /\ ~NoOfficialAlert
  /\ "yellow" \in input.alerts[1].event
  /\ input.metrics.wind_speed >= 118
  /\ input.forecast_severity.max_wind_24h > 100
  /\ outcome.severity = "high"

\* ---------------------------------------------- the extractor on its own
MaxTokens == 2     \* labelled tokens a free-text payload holds

\* outcome before the extractor has run
NotExtracted == [raised |-> "pending", metrics |-> DefaultMetrics]

TextWordSets == { {"heavy", "rain"}, {"rain"}, {"drizzle"}, {"clear"} }

Tokens ==
  [label : {"temperature", "wind", "precipitation"}, neg : BOOLEAN, digits : {Absent, 0, 12}]

TokenSeqs == UNION { [1..n -> Tokens] : n \in 0..MaxTokens }

TextPayloads ==
  { [type |-> "str", words |-> w, tokens |-> t] : w \in TextWordSets, t \in TokenSeqs }

Words(w) == [tag |-> "str", words |-> w]
NullWords == [tag |-> "null", words |-> {}]

\* the forecast signals of the extractor's inputs: none, a windy wet day, a
\* windy day with little rain, and a wet day whose 3-hour maximum is missing
ExtractForecasts ==
  { NoForecast,
    [has_severe_forecast |-> TRUE, max_wind_24h |-> 80, total_precipitation_24h |-> 40,
     max_precipitation_3h |-> 12, severe_conditions |-> <<>>],
    [has_severe_forecast |-> TRUE, max_wind_24h |-> 5, total_precipitation_24h |-> 20,
     max_precipitation_3h |-> 8, severe_conditions |-> <<{"storm"}>>],
    [has_severe_forecast |-> TRUE, max_wind_24h |-> 80, total_precipitation_24h |-> 40,
     max_precipitation_3h |-> Absent, severe_conditions |-> <<>>] }

DictPayloads ==
  { [type |-> "dict", temperature |-> t, wind_speed |-> w, precipitation |-> pr,
     humidity |-> Num(60), cloud_cover |-> Num(40), condition |-> c, weather |-> d,
     alerts |-> a, forecast_severity |-> fs] :
      t \in {Num(25), Missing, Null, Str(Absent), Str(30)},
      w \in {Num(10), Null, Str(Absent)},
      pr \in {Num(0), Num(4), Missing, Null},
      c \in {Words({"rain"}), Words({"clouds"}), Words({"drizzle"}),
             Words({"thunderstorm"}), NullWords},
      d \in {Words({"heavy", "intensity", "rain"}), Words({"moderate", "rain"}),
             Words({"light", "rain"}), Words({"drizzle"}), Words({"shower", "rain"}),
             Words({"overcast", "clouds"})},
      a \in {<<>>, <<[event |-> {"warning"}]>>},
      fs \in ExtractForecasts }

\* a payload that is neither a str nor a dict
OtherPayload == [type |-> "other"]

ExtractInputs == TextPayloads \cup DictPayloads \cup {OtherPayload}

InitExtract ==
  /\ now = 0
  /\ alerts = <<>>
  /\ pc = [p \in Procs |-> "idle"]
  /\ cand = [p \in Procs |-> NoCand]
  /\ resp = [p \in Procs |-> NoResp]
  /\ markRes = NoMark
  /\ input \in ExtractInputs
  /\ outcome = NotExtracted

\* one call of _extract_weather_metrics on the input
Extract ==
  /\ outcome = NotExtracted
  /\ outcome' = ExtractWeatherMetrics(input)
  /\ UNCHANGED <<now, alerts, pc, cand, resp, markRes, input>>

NextExtract == Extract

SpecExtract == InitExtract /\ [][NextExtract]_vars

Extracted == outcome # NotExtracted

\* ------------------------------------------------- extractor properties
\* the payload is a dict whose values all convert
WellFormedDict ==
  /\ input.type = "dict"
  /\ \A i \in DOMAIN MetricKeys : input[MetricKeys[i]].tag \in {"num", "missing"}
  /\ input.condition.tag = "str"
  /\ input.weather.tag = "str"

\* the payload carries neither an official alert nor a severe forecast
NoSignals ==
  input.type = "dict" => /\ input.alerts = <<>>
                         /\ ~input.forecast_severity.has_severe_forecast

\* the keywords of the payload's condition texts
ConditionWords ==
  IF input.type = "str" THEN input.words
  ELSE input.condition.words \cup input.weather.words

\* the precipitation the payload states, Absent when it states none
MeasuredPrecipitation ==
  IF input.type = "str"
  THEN IF \E i \in DOMAIN input.tokens :
            /\ input.tokens[i].label = "precipitation"
            /\ input.tokens[i].digits = 0
            /\ \A j \in 1..(i - 1) : input.tokens[j].label # "precipitation"
       THEN 0 ELSE Absent
  ELSE IF input.precipitation.tag = "num" THEN input.precipitation.v
  ELSE Absent

\* the documented estimate for a condition text that names precipitation
DocumentedRainEstimate(words) ==
  IF "heavy" \in words THEN 15
  ELSE IF "moderate" \in words THEN 8
  ELSE IF "light" \in words \/ "drizzle" \in words THEN 3
  ELSE 5

\* C11: for a payload, structured or free text, whose condition names rain,
\* drizzle, shower or thunderstorm while the measured precipitation is 0, the
\* extracted precipitation is 15 when the condition says heavy, 8 when
\* moderate, 3 when light or drizzle and 5 otherwise.
C11_RainEstimate ==
  (/\ Extracted
   /\ input.type = "str" \/ (WellFormedDict /\ NoSignals)
   /\ MeasuredPrecipitation = 0
   /\ ContainsAny(ConditionWords, {"rain", "drizzle", "shower", "thunderstorm"}))
  => outcome.metrics.precipitation = DocumentedRainEstimate(ConditionWords)

\* a key of the payload that cannot be read as a number
Unreadable(key) ==
  IF input.type = "str"
  THEN \A i \in DOMAIN input.tokens :
         input.tokens[i].label = MetricLabels[key] => input.tokens[i].digits = Absent
  ELSE IF input.type = "dict"
  THEN input[key].tag \in {"missing", "null"}
       \/ (input[key].tag = "str" /\ input[key].v = Absent)
  ELSE TRUE

\* C12: _extract_weather_metrics raises for no payload, and in the metric set
\* it returns every field that could not be read is 0 (the forecast and rain
\* rules aside, which supply wind speed and precipitation of their own).
C12_NeverRaises ==
  Extracted =>
    /\ outcome.raised = "none"
    /\ \A key \in {"temperature", "humidity", "cloud_cover"} :
         Unreadable(key) => outcome.metrics[key] = 0

\* C13 as stated: with has_severe_forecast set, the extracted wind speed is
\* max(current wind, max_wind_24h) and the extracted precipitation is
\* max(current precipitation, total_precipitation_24h).
C13_ForecastTotalUsed ==
  (Extracted /\ WellFormedDict /\ input.forecast_severity.has_severe_forecast)
  => LET fs == input.forecast_severity
         wind == FloatOf(input.wind_speed).v
         precip == FloatOf(input.precipitation).v
     IN  /\ outcome.metrics.wind_speed
              = (IF fs.max_wind_24h > wind THEN fs.max_wind_24h ELSE wind)
         /\ outcome.metrics.precipitation
              = (IF fs.total_precipitation_24h > precip
                 THEN fs.total_precipitation_24h ELSE precip)

\* the precipitation the forecast rule of the code arrives at
ForecastPrecipitation ==
  LET fs == input.forecast_severity
      precip == FloatOf(input.precipitation).v
      peak == IF fs.max_precipitation_3h = Absent THEN 15 ELSE fs.max_precipitation_3h
  IN  IF fs.total_precipitation_24h > 30
      THEN (IF peak > precip THEN peak ELSE precip)
      ELSE precip

\* C13, amended: with has_severe_forecast set, the extracted wind speed is
\* max(current wind, max_wind_24h); the extracted precipitation is
\* max(current precipitation, max_precipitation_3h), 15 standing in for a
\* missing 3-hour maximum, when total_precipitation_24h exceeds 30 and the
\* current precipitation otherwise; a result of 0 is left to the rain estimate.
C13_ForecastPeakUsed ==
  (Extracted /\ WellFormedDict /\ input.forecast_severity.has_severe_forecast)
  => LET fs == input.forecast_severity
         wind == FloatOf(input.wind_speed).v
     IN  /\ outcome.metrics.wind_speed
              = (IF fs.max_wind_24h > wind THEN fs.max_wind_24h ELSE wind)
         /\ ForecastPrecipitation # 0
              => outcome.metrics.precipitation = ForecastPrecipitation
         /\ (ForecastPrecipitation = 0 /\ ~ContainsAny(ConditionWords, RainWords))
              => outcome.metrics.precipitation = 0

\* a severe forecast raised both the wind speed and the precipitation
C13_Witness ==
  /\ Extracted
  /\ WellFormedDict
  /\ input.forecast_severity.has_severe_forecast
  /\ input.forecast_severity.total_precipitation_24h > 30
  /\ input.forecast_severity.max_precipitation_3h # Absent
  /\ outcome.metrics.wind_speed = input.forecast_severity.max_wind_24h
  /\ outcome.metrics.wind_speed > FloatOf(input.wind_speed).v
  /\ outcome.metrics.precipitation = input.forecast_severity.max_precipitation_3h
  /\ outcome.metrics.precipitation > FloatOf(input.precipitation).v

\* ------------------------------------------- the alert analysis on its own
\* outcome before the analysis has run
NotAnalyzed == [NoCand EXCEPT !.alert_type = "pending", !.severity = "pending",
                              !.title = "pending"]

AnalysisPayloads ==
  { Payload(ok, t, w, pr) : ok \in BOOLEAN, t \in {25, 45}, w \in {10, 80, 120},
                            pr \in {0, 20, 60} }

AnalysisInputs ==
  UNION { { [location |-> l, weather_data |-> wd, geo_data |-> g] :
              wd \in AnalysisPayloads, g \in geocode_location(l) } : l \in Locations }

InitAnalyze ==
  /\ now = 0
  /\ alerts = <<>>
  /\ pc = [p \in Procs |-> "idle"]
  /\ cand = [p \in Procs |-> NoCand]
  /\ resp = [p \in Procs |-> NoResp]
  /\ markRes = NoMark
  /\ input \in AnalysisInputs
  /\ outcome = NotAnalyzed

\* one call of analyze_weather_for_alerts on the input
Analyze ==
  /\ outcome = NotAnalyzed
  /\ outcome' = analyze_weather_for_alerts(input.location, input.weather_data,
                                           input.geo_data)
  /\ UNCHANGED <<now, alerts, pc, cand, resp, markRes, input>>

NextAnalyze == Analyze

SpecAnalyze == InitAnalyze /\ [][NextAnalyze]_vars

Analyzed == outcome # NotAnalyzed

\* what the analysis hands its caller when no severe weather is detected
NoSevereWeather ==
  [alert_type |-> "none", severity |-> "none", title |-> "none", location |-> "none",
   temperature |-> 0, wind_speed |-> 0, precipitation |-> 0, humidity |-> 0]

\* C14: when geocoding of the location fails, the analysis hands its caller
\* an outcome that differs from the "no severe weather detected" outcome.
C14_GeocodeFailureDistinct ==
  (Analyzed /\ input.weather_data.success /\ ~input.geo_data.found)
  => outcome # NoSevereWeather

\* ------------------------------------------------ notification fan-out
\* the rows of user_subscriptions, by primary key, each joined to its user
SubscriptionIds == {1, 2}

\* column.ilike('%pattern%') on texts given by the words they hold
ILike(column, pattern) == pattern \subseteq column

\* the opt-in flags a subscription may carry: the column defaults, every
\* severity, critical only
NotifyFlags ==
  { [low |-> FALSE, medium |-> TRUE, high |-> TRUE, critical |-> TRUE],
    [low |-> TRUE, medium |-> TRUE, high |-> TRUE, critical |-> TRUE],
    [low |-> FALSE, medium |-> FALSE, high |-> FALSE, critical |-> TRUE] }

\* where a subscription points: its location and city columns, and is_active
SubscriptionPlaces ==
  { [location |-> {"chennai", "tamil", "nadu"}, city |-> {}, is_active |-> TRUE],
    [location |-> {"jaffna"}, city |-> {"chennai"}, is_active |-> TRUE],
    [location |-> {"jaffna"}, city |-> {}, is_active |-> TRUE],
    [location |-> {"chennai", "tamil", "nadu"}, city |-> {}, is_active |-> FALSE] }

\* the users that own subscriptions
UserIds == {1, 2}

SubscriptionRows ==
  { [user_id |-> u, email |-> "user@example.org", location |-> pl.location,
     city |-> pl.city, is_active |-> pl.is_active, email_enabled |-> e,
     notify_on_low |-> f.low, notify_on_medium |-> f.medium, notify_on_high |-> f.high,
     notify_on_critical |-> f.critical] :
      u \in UserIds, pl \in SubscriptionPlaces, e \in BOOLEAN, f \in NotifyFlags }

\* the user_subscriptions tables: row 1 belongs to user 1, row 2 to either user
SubscriptionTables ==
  { t \in [SubscriptionIds -> SubscriptionRows] : t[1].user_id = 1 }

\* the alerts a fan-out is run for
FanOutAlerts ==
  { [id |-> 1, severity |-> sv, location |-> {"chennai"}, city |-> c] :
      sv \in SeverityLevel, c \in { {}, {"chennai"} } }

\* _get_subscribed_users: the keys of the rows the query selects
get_subscribed_users(alert, subscriptions) ==
  { i \in DOMAIN subscriptions :
      /\ subscriptions[i].is_active
      /\ \/ ILike(subscriptions[i].location, alert.location)
         \/ (alert.city # {} /\ ILike(subscriptions[i].city, alert.city)) }

\* _should_notify with the severity test left out
should_notify_always(subscription, severity) == TRUE

\* _should_notify
should_notify(subscription, severity) ==
  IF severity = "low" THEN subscription.notify_on_low
  ELSE IF severity = "medium" THEN subscription.notify_on_medium
  ELSE IF severity = "high" THEN subscription.notify_on_high
  ELSE IF severity = "critical" THEN subscription.notify_on_critical
  ELSE TRUE

\* _log_notification: the NotificationLog row it adds
NotificationLog(user_id, alert_id, status, error_message) ==
  [user_id |-> user_id, alert_id |-> alert_id, notification_type |-> "email",
   status |-> status, error_message |-> error_message]

\* _send_email_notification for the user of a selected row: what it logs, what
\* it returns, and whether the SMTP server took the message.  smtp_configured
\* says that SMTP_USER and SMTP_PASSWORD are set; delivery is what the server
\* does with the message, "ok" or the error it raises
send_email_notification(user_id, alert, smtp_configured, delivery) ==
  IF ~smtp_configured
  THEN [log |-> NotificationLog(user_id, alert.id, "sent", "none"), success |-> TRUE,
        transported |-> FALSE]
  ELSE IF delivery = "ok"
  THEN [log |-> NotificationLog(user_id, alert.id, "sent", "none"), success |-> TRUE,
        transported |-> TRUE]
  ELSE [log |-> NotificationLog(user_id, alert.id, "failed", delivery),
        success |-> FALSE, transported |-> FALSE]

\* the state a fan-out builds up: the rows _send_email_notification was called
\* for, the rows whose message the SMTP server took, the notification_logs
\* rows added, for each of these the selected row it was written for, and
\* the two counters
NoFanOut ==
  [attempted |-> {}, transported |-> {}, logs |-> <<>>, log_rows |-> <<>>, sent |-> 0,
   failed |-> 0]

\* the body of the loop for one selected row
NotifyOne(acc, i, alert, subscriptions, smtp_configured, delivery) ==
  IF ~should_notify(subscriptions[i], alert.severity)
  THEN acc
  ELSE IF subscriptions[i].email_enabled /\ subscriptions[i].email # ""
  THEN LET r == send_email_notification(subscriptions[i].user_id, alert, smtp_configured,
                                        delivery[i])
       IN  [attempted |-> acc.attempted \cup {i},
            transported |-> IF r.transported THEN acc.transported \cup {i}
                            ELSE acc.transported,
            logs |-> Append(acc.logs, r.log),
            log_rows |-> Append(acc.log_rows, i),
            sent |-> IF r.success THEN acc.sent + 1 ELSE acc.sent,
            failed |-> IF r.success THEN acc.failed ELSE acc.failed + 1]
  ELSE acc

RECURSIVE NotifyEach_stop_on_failure(_, _, _, _, _, _)
\* the loop leaving at the first dispatch that fails
NotifyEach_stop_on_failure(acc, todo, alert, subscriptions, smtp_configured, delivery) ==
  IF todo = {} \/ acc.failed > 0
  THEN acc
  ELSE LET i == CHOOSE k \in todo : \A j \in todo : k <= j
       IN  NotifyEach_stop_on_failure(
             NotifyOne(acc, i, alert, subscriptions, smtp_configured, delivery),
             todo \ {i}, alert, subscriptions, smtp_configured, delivery)

RECURSIVE NotifyEach(_, _, _, _, _, _)
\* the loop of send_alert_notifications over the selected rows
NotifyEach(acc, todo, alert, subscriptions, smtp_configured, delivery) ==
  IF todo = {}
  THEN acc
  ELSE LET i == CHOOSE k \in todo : \A j \in todo : k <= j
       IN  NotifyEach(NotifyOne(acc, i, alert, subscriptions, smtp_configured, delivery),
                      todo \ {i}, alert, subscriptions, smtp_configured, delivery)

\* NotificationService.send_alert_notifications(alert)
send_alert_notifications(alert, subscriptions, smtp_configured, delivery) ==
  LET subscribed_users == get_subscribed_users(alert, subscriptions)
  IN  IF subscribed_users = {}
      THEN NoFanOut
      ELSE NotifyEach(NoFanOut, subscribed_users, alert, subscriptions, smtp_configured,
                      delivery)

\* outcome before the fan-out has run
NotNotified == [NoFanOut EXCEPT !.sent = Absent, !.failed = Absent]

FanOutInputs ==
  [alert : FanOutAlerts, subscriptions : SubscriptionTables,
   smtp_configured : BOOLEAN, delivery : [SubscriptionIds -> {"ok", "SMTPRecipientsRefused"}]]

InitNotify ==
  /\ now = 0
  /\ alerts = <<>>
  /\ pc = [p \in Procs |-> "idle"]
  /\ cand = [p \in Procs |-> NoCand]
  /\ resp = [p \in Procs |-> NoResp]
  /\ markRes = NoMark
  /\ input \in FanOutInputs
  /\ outcome = NotNotified

\* one call of send_alert_notifications on the input
Notify ==
  /\ outcome = NotNotified
  /\ outcome' = send_alert_notifications(input.alert, input.subscriptions,
                                         input.smtp_configured, input.delivery)
  /\ UNCHANGED <<now, alerts, pc, cand, resp, markRes, input>>

NextNotify == Notify

SpecNotify == InitNotify /\ [][NextNotify]_vars

Notified == outcome # NotNotified

\* ---------------------------------------------------- fan-out properties
\* subscription i is active and names the alert's place
Matched(i) ==
  /\ input.subscriptions[i].is_active
  /\ \/ input.alert.location \subseteq input.subscriptions[i].location
     \/ (input.alert.city # {} /\ input.alert.city \subseteq input.subscriptions[i].city)

\* the opt-in flag of subscription i for the alert's severity
OptedIn(i) ==
  LET sub == input.subscriptions[i]
  IN  [low |-> sub.notify_on_low, medium |-> sub.notify_on_medium,
       high |-> sub.notify_on_high, critical |-> sub.notify_on_critical]
        [input.alert.severity]

\* the notification_logs rows written for subscription i
RecordsOf(i) == { k \in DOMAIN outcome.logs : outcome.log_rows[k] = i }

\* C15: in a fan-out for an alert of severity S no dispatch is attempted and
\* no record is written for a matched subscription whose opt-in flag for S is
\* false, and every matched subscription whose flag for S is true and whose
\* email channel is enabled gets a dispatch attempt.
C15_OptInRespected ==
  Notified =>
    \A i \in SubscriptionIds :
      Matched(i) =>
        /\ ~OptedIn(i) => (i \notin outcome.attempted /\ RecordsOf(i) = {})
        /\ (OptedIn(i) /\ input.subscriptions[i].email_enabled) => i \in outcome.attempted

\* one matched subscription was skipped for its flag, another was dispatched to
C15_Witness ==
  /\ Notified
  /\ \E i, j \in SubscriptionIds :
       /\ Matched(i) /\ ~OptedIn(i) /\ input.subscriptions[i].email_enabled
       /\ i \notin outcome.attempted
       /\ Matched(j) /\ OptedIn(j) /\ j \in outcome.attempted

\* subscription i is one the fan-out has to dispatch to
Eligible(i) == Matched(i) /\ OptedIn(i) /\ input.subscriptions[i].email_enabled

\* the dispatch to subscription i fails
DispatchFails(i) == input.smtp_configured /\ input.delivery[i] # "ok"

\* C16: a dispatch failure for one pair does not stop the loop: every
\* remaining eligible pair is still attempted and gets its own record.
C16_FailureDoesNotStopLoop ==
  Notified =>
    \A i, j \in SubscriptionIds :
      (i < j /\ Eligible(i) /\ DispatchFails(i) /\ Eligible(j))
      => /\ j \in outcome.attempted
         /\ Cardinality(RecordsOf(j)) = 1
         /\ Cardinality(RecordsOf(i)) = 1

\* the first dispatch failed and the second went out
C16_Witness ==
  /\ Notified
  /\ \E i, j \in SubscriptionIds :
       /\ i < j /\ Eligible(i) /\ DispatchFails(i) /\ Eligible(j)
       /\ \E k \in RecordsOf(i) : outcome.logs[k].status = "failed"
       /\ \E k \in RecordsOf(j) : outcome.logs[k].status = "sent"
       /\ outcome.failed = 1 /\ outcome.sent = 1

\* C17: a record has status Sent only if the transport send call for its pair
\* succeeded, and status Failed with the error text otherwise; a missing
\* transport credential is never recorded as Sent.
C17_SentOnlyIfTransported ==
  Notified =>
    \A k \in DOMAIN outcome.logs :
      LET log == outcome.logs[k]
          delivered == input.smtp_configured /\ input.delivery[outcome.log_rows[k]] = "ok"
      IN  /\ log.status = "sent" => delivered
          /\ ~delivered => (log.status = "failed" /\ log.error_message # "none")

\* C28: within one fan-out each user is dispatched at most one email and
\* gets at most one record for the alert, even when the user owns several
\* active subscriptions that all match the alert.
C28_OneEmailPerUser ==
  Notified =>
    \A u \in UserIds :
      /\ Cardinality({ i \in outcome.attempted : input.subscriptions[i].user_id = u }) <= 1
      /\ Cardinality({ k \in DOMAIN outcome.logs : outcome.logs[k].user_id = u }) <= 1

\* ---------------------------------- the notification task on its own
\* the stored row of the alert a fan-out is run for
StoredAlert(alert) ==
  NewAlert(alert.id,
           [alert_type |-> "heavy_rain", severity |-> alert.severity,
            title |-> "Heavy Rainfall Alert", location |-> "chennai", temperature |-> 25,
            wind_speed |-> 10, precipitation |-> 20, humidity |-> 60],
           0)

InitTask ==
  /\ now = 0
  /\ input \in FanOutInputs
  /\ alerts = <<StoredAlert(input.alert)>>
  /\ pc = [p \in Procs |-> "idle"]
  /\ cand = [p \in Procs |-> NoCand]
  /\ resp = [p \in Procs |-> NoResp]
  /\ markRes = NoMark
  /\ outcome = NotNotified

\* send_alert_notifications_task(alert_id) with the fan-out it runs: load the
\* alert, send_alert_notifications(alert), mark_alert_as_sent(alert_id)
NotificationsTask ==
  /\ outcome = NotNotified
  /\ input.alert.id \in DOMAIN alerts
  /\ outcome' = send_alert_notifications(input.alert, input.subscriptions,
                                         input.smtp_configured, input.delivery)
  /\ alerts' = MarkSent(alerts, input.alert.id, now)
  /\ UNCHANGED <<now, pc, cand, resp, markRes, input>>

NextTask == NotificationsTask

SpecTask == InitTask /\ [][NextTask]_vars

\* C27: an alert with isSent = true has at least one notification record
\* with status Sent: it is not marked sent when its fan-out found no
\* subscriber or when every dispatch failed.
C27_SentAlertHasSentRecord ==
  \A i \in DOMAIN alerts :
    alerts[i].is_sent =>
      \E k \in DOMAIN outcome.logs :
        outcome.logs[k].alert_id = alerts[i].id /\ outcome.logs[k].status = "sent"

\* ------------------------------------------------ route recommendation
MaxCities == 4     \* cities sampled along a route

\* the entries of city_weather: plan_route gives each a severity label; an
\* entry may also come without one
Cities ==
  { [city |-> "city", severity |-> l] : l \in SeverityLevel } \cup { [city |-> "city"] }

CityWeatherLists == UNION { [1..n -> Cities] : n \in 0..MaxCities }

\* city.get("severity", "low")
GetSeverity(city) == IF "severity" \in DOMAIN city THEN city.severity ELSE "low"

\* severity_counts[label]
SeverityCount(city_weather, label) ==
  Cardinality({ i \in DOMAIN city_weather : GetSeverity(city_weather[i]) = label })

\* the recommendation with "not recommended" starting at three high cities
generate_route_recommendation_high_at_3(city_weather) ==
  IF city_weather = <<>>
  THEN "Unable to generate recommendation"
  ELSE IF SeverityCount(city_weather, "critical") > 0
  THEN "DO NOT TRAVEL"
  ELSE IF SeverityCount(city_weather, "high") >= 3
  THEN "TRAVEL NOT RECOMMENDED"
  ELSE IF SeverityCount(city_weather, "high") = 1
  THEN "CAUTION ADVISED"
  ELSE IF 2 * SeverityCount(city_weather, "medium") >= Len(city_weather)
  THEN "TRAVEL SAFE WITH CAUTION"
  ELSE "EXCELLENT CONDITIONS"

\* the recommendation without the branch for a single high city
generate_route_recommendation_no_single_high(city_weather) ==
  IF city_weather = <<>>
  THEN "Unable to generate recommendation"
  ELSE IF SeverityCount(city_weather, "critical") > 0
  THEN "DO NOT TRAVEL"
  ELSE IF SeverityCount(city_weather, "high") >= 2
  THEN "TRAVEL NOT RECOMMENDED"
  ELSE IF 2 * SeverityCount(city_weather, "medium") >= Len(city_weather)
  THEN "TRAVEL SAFE WITH CAUTION"
  ELSE "EXCELLENT CONDITIONS"

\* generate_route_recommendation: the headline of the text it returns
generate_route_recommendation(city_weather) ==
  IF city_weather = <<>>
  THEN "Unable to generate recommendation"
  ELSE IF SeverityCount(city_weather, "critical") > 0
  THEN "DO NOT TRAVEL"
  ELSE IF SeverityCount(city_weather, "high") >= 2
  THEN "TRAVEL NOT RECOMMENDED"
  ELSE IF SeverityCount(city_weather, "high") = 1
  THEN "CAUTION ADVISED"
  ELSE IF 2 * SeverityCount(city_weather, "medium") >= Len(city_weather)
  THEN "TRAVEL SAFE WITH CAUTION"
  ELSE "EXCELLENT CONDITIONS"

\* outcome before a recommendation was asked for; previous is the
\* recommendation the route had before one of its cities was last raised
NotRecommended == [recommendation |-> "pending", previous |-> "none"]

SeverityRank == [low |-> 1, medium |-> 2, high |-> 3, critical |-> 4]

InitRoute ==
  /\ now = 0
  /\ alerts = <<>>
  /\ pc = [p \in Procs |-> "idle"]
  /\ cand = [p \in Procs |-> NoCand]
  /\ resp = [p \in Procs |-> NoResp]
  /\ markRes = NoMark
  /\ input \in CityWeatherLists
  /\ outcome = NotRecommended

\* one call of generate_route_recommendation on the route's cities
Recommend ==
  /\ outcome = NotRecommended
  /\ outcome' = [recommendation |-> generate_route_recommendation(input),
                 previous |-> "none"]
  /\ UNCHANGED <<now, alerts, pc, cand, resp, markRes, input>>

\* the weather of city i worsens to label l and the route is assessed again
RaiseCity(i, l) ==
  /\ outcome # NotRecommended
  /\ i \in DOMAIN input
  /\ SeverityRank[l] > SeverityRank[GetSeverity(input[i])]
  /\ input' = [input EXCEPT ![i] = [city |-> input[i].city, severity |-> l]]
  /\ outcome' = [recommendation |-> generate_route_recommendation(input'),
                 previous |-> outcome.recommendation]
  /\ UNCHANGED <<now, alerts, pc, cand, resp, markRes>>

NextRoute ==
  \/ Recommend
  \/ \E i \in 1..MaxCities : \E l \in SeverityLevel : RaiseCity(i, l)

SpecRoute == InitRoute /\ [][NextRoute]_vars

Recommended == outcome # NotRecommended

\* ------------------------------------------------------ route properties
\* the cities of the route that carry the label
Labelled(label) ==
  { i \in DOMAIN input : "severity" \in DOMAIN input[i] /\ input[i].severity = label }

RecommendationRank ==
  [x \in {"EXCELLENT CONDITIONS", "TRAVEL SAFE WITH CAUTION", "CAUTION ADVISED",
          "TRAVEL NOT RECOMMENDED", "DO NOT TRAVEL"} |->
     IF x = "EXCELLENT CONDITIONS" THEN 1
     ELSE IF x = "TRAVEL SAFE WITH CAUTION" THEN 2
     ELSE IF x = "CAUTION ADVISED" THEN 3
     ELSE IF x = "TRAVEL NOT RECOMMENDED" THEN 4
     ELSE 5]

\* C20: with the other cities fixed, raising the label of one city never
\* gives a less severe recommendation than the route had before.
C20_Monotone ==
  (Recommended /\ outcome.previous # "none")
  => RecommendationRank[outcome.recommendation] >= RecommendationRank[outcome.previous]

\* raising one city took a route from favorable to caution advised
C20_Witness ==
  /\ Recommended
  /\ outcome.previous = "EXCELLENT CONDITIONS"
  /\ outcome.recommendation = "CAUTION ADVISED"
  /\ Len(input) >= 2

\* ------------------------------------- the classifier under rising rain
\* outcome before the first classification; previous is the severity the
\* classifier returned before the precipitation was last raised
NotRated == [severity |-> "pending", previous |-> "pending"]

InitRain ==
  /\ now = 0
  /\ alerts = <<>>
  /\ pc = [p \in Procs |-> "idle"]
  /\ cand = [p \in Procs |-> NoCand]
  /\ resp = [p \in Procs |-> NoResp]
  /\ markRes = NoMark
  /\ input \in { [metrics |-> m, alerts |-> <<>>, forecast_severity |-> NoForecast] :
                   m \in AllMetrics }
  /\ outcome = NotRated

\* one call of _analyze_conditions on metrics without any signal
ClassifyMetrics ==
  /\ outcome = NotRated
  /\ outcome' = [severity |-> analyze_conditions(input.metrics, input.alerts,
                                                 input.forecast_severity).severity,
                 previous |-> "pending"]
  /\ UNCHANGED <<now, alerts, pc, cand, resp, markRes, input>>

\* the precipitation reading rises to pr, the other metrics stay, and the
\* classifier is called again
RaisePrecipitation(pr) ==
  /\ outcome # NotRated
  /\ pr > input.metrics.precipitation
  /\ input' = [input EXCEPT !.metrics.precipitation = pr]
  /\ outcome' = [severity |-> analyze_conditions(input'.metrics, input'.alerts,
                                                 input'.forecast_severity).severity,
                 previous |-> outcome.severity]
  /\ UNCHANGED <<now, alerts, pc, cand, resp, markRes>>

NextRain ==
  \/ ClassifyMetrics
  \/ \E pr \in PrecipValues : RaisePrecipitation(pr)

SpecRain == InitRain /\ [][NextRain]_vars

\* 'no alert' below Low < Medium < High < Critical
SeverityOrder == [none |-> 0, low |-> 1, medium |-> 2, high |-> 3, critical |-> 4]

\* C30: with no official alert or forecast signal and the other metrics held
\* fixed, raising the precipitation never lowers the severity the classifier
\* returns.
C30_RainMonotone ==
  (outcome # NotRated /\ outcome.previous # "pending")
  => SeverityOrder[outcome.severity] >= SeverityOrder[outcome.previous]

\* ------------------------------------------------ the ledger over days
\* severity_order of get_active_alerts
severity_order == [low |-> 0, medium |-> 1, high |-> 2, critical |-> 3]

\* a filter argument left at None
NoFilter == "None"

\* AlertService.get_active_alerts(location, severity): the keys of the rows
\* the query selects (two location names of the model match only themselves)
ActiveAlerts(rows, location, severity) ==
  { i \in DOMAIN rows :
      /\ rows[i].is_active
      /\ location # NoFilter => rows[i].location = location
      /\ severity # NoFilter => severity_order[rows[i].severity] >= severity_order[severity] }

\* GET /alerts: one call of get_active_alerts; outcome keeps what it listed
get_active_alerts(location, severity) ==
  /\ outcome' = [listed |-> ActiveAlerts(alerts, location, severity)]
  /\ UNCHANGED <<now, alerts, pc, cand, resp, markRes, input>>

\* more than a day passes at once
TickDay ==
  /\ now <= MaxTime
  /\ now' = now + ExpiryHours + TickHours
  /\ UNCHANGED <<alerts, pc, cand, resp, markRes, input, outcome>>

\* one client at a time, over more than a day
NextExpiry ==
  \/ Tick
  \/ TickDay
  \/ check_location_for_alerts("p1")
  \/ create_alert_select("p1")
  \/ create_alert_insert("p1")
  \/ send_alert_notifications_task("p1")
  \/ \E alert_id \in 1..(MaxAlerts + 1) : mark_alert_as_sent(alert_id)
  \/ \E location \in Locations \cup {NoFilter} :
       \E severity \in {NoFilter, "high"} : get_active_alerts(location, severity)

SpecExpiry == Init /\ [][NextExpiry]_vars

\* the stored alert's expires_at has passed
Expired(i) == now > alerts[i].expires_at

\* C26: once an alert's expiresAt (detectedAt + 24h) has passed, the
\* list-active-alerts query no longer reports it and no call mutates it.
C26_ExpiredAlertsAreGone ==
  [][\A i \in DOMAIN alerts :
       Expired(i) =>
         /\ alerts'[i] = alerts[i]
         /\ outcome' # outcome => i \notin outcome'.listed
    ]_vars

\* ------------------------------------------------- cities along a route
\* Places lie in a plane, coordinates in km; a name is its lower-case text
\* (key) and the way it is written (form), so that lower() is name.key.
Name(key, form) == [key |-> key, form |-> form]
\* reverse_geocode answering None
NoPlace == Name("None", "None")
Lower(name) == name.key

Point(x, y) == [x |-> x, y |-> y]

\* the whole part of a square root
Isqrt(n) == CHOOSE r \in 0..1200 : r * r <= n /\ (r + 1) * (r + 1) > n

\* calculate_distance: the distance of two points in whole km
calculate_distance(p, q) ==
  Isqrt((p.x - q.x) * (p.x - q.x) + (p.y - q.y) * (p.y - q.y))

threshold_km == 50

\* is_point_near_route judging by the detour alone
is_point_near_route_detour_only(point, start, end, threshold) ==
  calculate_distance(point, start) + calculate_distance(point, end)
    - calculate_distance(start, end) < threshold

\* is_point_near_route
is_point_near_route(point, start, end, threshold) ==
  LET dist_to_start == calculate_distance(point, start)
      dist_to_end == calculate_distance(point, end)
      route_length == calculate_distance(start, end)
  IN  IF dist_to_start < threshold \/ dist_to_end < threshold
      THEN TRUE
      ELSE dist_to_start + dist_to_end - route_length < threshold

\* an entry of route_cities
RouteCity(name, pos, dist, origin) ==
  [name |-> name, pos |-> pos, distance_from_start |-> dist, origin |-> origin]

\* the indices (from 0) find_cities_from_route_waypoints samples
SampledIndices(total) ==
  { i \in {0, total \div 5, (2 * total) \div 5, (3 * total) \div 5, (4 * total) \div 5,
           total - 1} \cup { j \in 0..(total - 1) : j % 5 = 0 } : i < total }

\* the body of the sampling loop for the waypoint at index i (from 0)
SampleOne(cities, i, waypoints, start_city, end_city) ==
  LET waypoint == waypoints[i + 1]
      seen_cities == { Lower(cities[k].name) : k \in DOMAIN cities }
  IN  IF waypoint.located /\ waypoint.place # NoPlace /\ waypoint.place.key # ""
         /\ Lower(waypoint.place) \notin seen_cities
         /\ Lower(waypoint.place) \notin {Lower(start_city), Lower(end_city)}
      THEN Append(cities, RouteCity(waypoint.place, waypoint.pos, Absent, "waypoint"))
      ELSE cities

RECURSIVE SampleEach(_, _, _, _, _)
SampleEach(cities, todo, waypoints, start_city, end_city) ==
  IF todo = {}
  THEN cities
  ELSE LET i == CHOOSE k \in todo : \A j \in todo : k <= j
       IN  SampleEach(SampleOne(cities, i, waypoints, start_city, end_city),
                      todo \ {i}, waypoints, start_city, end_city)

\* find_cities_from_route_waypoints
find_cities_from_route_waypoints(waypoints, start_city, end_city) ==
  SampleEach(<<>>, SampledIndices(Len(waypoints)), waypoints, start_city, end_city)

\* the scan of the table of major cities on the fallback path
ScanMajorCities(table, start_city, end_city, start, end, threshold) ==
  LET Kept(entry) ==
        /\ Lower(entry.name) \notin {Lower(start_city), Lower(end_city)}
        /\ is_point_near_route(entry.pos, start, end, threshold)
      kept == SelectSeq(table, Kept)
  IN  [ k \in DOMAIN kept |->
          RouteCity(kept[k].name, kept[k].pos, calculate_distance(start, kept[k].pos),
                    "table") ]

\* num_points giving one point per 100 km
NumPoints_per_100km(total_distance) ==
  IF total_distance \div 100 < 5 THEN total_distance \div 100 ELSE 5

\* num_points = min(5, max(2, int(total_distance / 100)))
NumPoints(total_distance) ==
  LET per100 == total_distance \div 100
      atLeast2 == IF per100 > 2 THEN per100 ELSE 2
  IN  IF atLeast2 < 5 THEN atLeast2 ELSE 5

\* interpolated point i of num_points between start and end
InterPoint(start, end, i, num_points) ==
  Point(start.x + ((end.x - start.x) * i) \div (num_points + 1),
        start.y + ((end.y - start.y) * i) \div (num_points + 1))

\* the body of the interpolation loop; reverse is what reverse_geocode
\* answers for point i
InterpolateOne(cities, i, num_points, start, end, reverse) ==
  LET inter == InterPoint(start, end, i, num_points)
      city_info == reverse[i]
  IN  IF city_info # NoPlace
         /\ ~\E k \in DOMAIN cities : Lower(cities[k].name) = Lower(city_info)
      THEN Append(cities, RouteCity(city_info, inter, calculate_distance(start, inter),
                                    "interpolated"))
      ELSE cities

RECURSIVE InterpolateEach(_, _, _, _, _, _)
InterpolateEach(cities, i, num_points, start, end, reverse) ==
  IF i > num_points
  THEN cities
  ELSE InterpolateEach(InterpolateOne(cities, i, num_points, start, end, reverse),
                       i + 1, num_points, start, end, reverse)

\* the cities in the order the code found them
SortCities_unsorted(cities) == cities

RECURSIVE SortCities(_)
\* route_cities.sort(key=distance_from_start): a stable sort
SortCities(cities) ==
  IF cities = <<>>
  THEN <<>>
  ELSE LET rest == SortCities(SubSeq(cities, 1, Len(cities) - 1))
           c == cities[Len(cities)]
           k == Cardinality({ j \in DOMAIN rest :
                                rest[j].distance_from_start <= c.distance_from_start })
       IN  SubSeq(rest, 1, k) \o <<c>> \o SubSeq(rest, k + 1, Len(rest))

\* what the model call of verify_route_with_ai came to: no answer (no key or
\* an exception), or the lower-case names of the cities its lines match
NoAnswer == [answered |-> FALSE, selected |-> {}]
Answer(keys) == [answered |-> TRUE, selected |-> keys]

\* verify_route_with_ai
verify_route_with_ai(cities, ai) ==
  IF ~ai.answered
  THEN cities
  ELSE LET Selected(city) == Lower(city.name) \in ai.selected
           filtered == SelectSeq(cities, Selected)
       IN  IF filtered # <<>> THEN filtered
           ELSE SubSeq(cities, 1, IF Len(cities) < 6 THEN Len(cities) ELSE 6)

\* what find_cities_along_route holds when it returns: the cities found on
\* its path, the number of interpolated points it generated, the list after
\* the sort and the list it returns
CitiesResult(found, num_points, sorted, cities) ==
  [found |-> found, num_points |-> num_points, sorted |-> sorted, cities |-> cities]

\* find_cities_along_route(start_city, end_city) in the environment env: the
\* two geocoded places, the waypoints of the directions provider (<<>> when
\* it gives none), the table of major cities, the answers of reverse_geocode
\* and the answer of the model
find_cities_along_route(start_city, end_city, env) ==
  IF ~env.start_coords.found \/ ~env.end_coords.found
  THEN CitiesResult(<<>>, 0, <<>>, <<>>)
  ELSE LET start == env.start_coords.pos
           end == env.end_coords.pos
           total_distance == calculate_distance(start, end)
           from_waypoints ==
             LET cs == find_cities_from_route_waypoints(env.waypoints, start_city, end_city)
             IN  [ k \in DOMAIN cs |->
                     [cs[k] EXCEPT !.distance_from_start =
                                     calculate_distance(start, cs[k].pos)] ]
           scanned == ScanMajorCities(env.table, start_city, end_city, start, end,
                                      threshold_km)
           interpolate == Len(scanned) < 2 /\ total_distance > 100
           num_points == IF interpolate THEN NumPoints(total_distance) ELSE 0
           from_table == InterpolateEach(scanned, 1, num_points, start, end, env.reverse)
           found == IF env.waypoints # <<>> THEN from_waypoints ELSE from_table
           sorted == SortCities(found)
       IN  CitiesResult(found,
                        IF env.waypoints # <<>> THEN 0 ELSE num_points,
                        sorted,
                        verify_route_with_ai(sorted, env.ai))

\* ---- the searches checked: Chennai at the origin, the destination due
\* east of it at one of Distances km
Distances == {60, 100, 150, 250, 350, 700}

StartCity == Name("chennai", "lower")
EndCity == Name("trichy", "lower")

\* the table of major cities, in the order of the dict
MajorCities ==
  << [name |-> Name("chennai", "title"), pos |-> Point(0, 0)],
     [name |-> Name("vellore", "title"), pos |-> Point(100, 60)],
     [name |-> Name("villupuram", "title"), pos |-> Point(60, 0)],
     [name |-> Name("tambaram", "title"), pos |-> Point(-40, 0)],
     [name |-> Name("tindivanam", "title"), pos |-> Point(130, 0)],
     [name |-> Name("salem", "title"), pos |-> Point(100, 120)] >>

\* the tables checked: Chennai and any of the other entries, in dict order
MajorCityTables ==
  { LET In(entry) == entry.name.key \in keys \cup {"chennai"}
    IN  SelectSeq(MajorCities, In) :
      keys \in SUBSET {"vellore", "villupuram", "tambaram", "tindivanam", "salem"} }

Towns == <<"town1", "town2", "town3", "town4", "town5">>

\* the answers of reverse_geocode for the interpolated points
ReverseAnswers ==
  { [i \in 1..5 |-> Name(Towns[i], "title")] }
    \cup { [i \in 1..5 |-> place] :
             place \in {NoPlace, Name("chennai", "title"), Name("trichy", "title"),
                        Name("vellore", "upper")} }

\* the answers of the model
AIAnswers ==
  { NoAnswer, Answer({}), Answer({"villupuram", "town2", "kanchipuram"}),
    Answer({"vellore", "tambaram", "town1", "town3"}) }

\* the waypoints of a driving route with what reverse_geocode answers there
Waypoint(x, y, located, place) ==
  [pos |-> Point(x, y), located |-> located, place |-> place]

WaypointKinds ==
  { Waypoint(60, 0, TRUE, Name("villupuram", "title")),
    Waypoint(62, 5, TRUE, Name("villupuram", "upper")),
    Waypoint(120, 0, TRUE, Name("chennai", "title")),
    Waypoint(90, 0, TRUE, NoPlace),
    Waypoint(30, 40, TRUE, Name("kanchipuram", "title")),
    Waypoint(0, 0, FALSE, Name("arcot", "title")) }

LongRoute ==
  << Waypoint(60, 0, TRUE, Name("villupuram", "title")),
     Waypoint(30, 40, TRUE, Name("kanchipuram", "title")),
     Waypoint(90, 0, TRUE, NoPlace),
     Waypoint(80, 10, TRUE, Name("arcot", "title")),
     Waypoint(62, 5, TRUE, Name("villupuram", "upper")),
     Waypoint(100, 0, TRUE, Name("trichy", "title")),
     Waypoint(20, 0, TRUE, Name("tambaram", "title")) >>

WaypointLists ==
  {LongRoute} \cup UNION { [1..n -> WaypointKinds] : n \in 1..3 }

Geocoded(x, y) == [found |-> TRUE, pos |-> Point(x, y)]
NotGeocoded == [found |-> FALSE, pos |-> Point(0, 0)]

FindCitiesEnv(start_coords, end_coords, waypoints, table, reverse, ai) ==
  [start_coords |-> start_coords, end_coords |-> end_coords, waypoints |-> waypoints,
   table |-> table, reverse |-> reverse, ai |-> ai]

FallbackEnvs ==
  { FindCitiesEnv(Geocoded(0, 0), Geocoded(d, 0), <<>>, table, reverse, ai) :
      d \in Distances, table \in MajorCityTables, reverse \in ReverseAnswers,
      ai \in AIAnswers }

WaypointEnvs ==
  { FindCitiesEnv(Geocoded(0, 0), Geocoded(150, 0), waypoints, MajorCities,
                  [i \in 1..5 |-> NoPlace], ai) :
      waypoints \in WaypointLists, ai \in AIAnswers }

UngeocodedEnvs ==
  { FindCitiesEnv(start_coords, end_coords, <<>>, MajorCities,
                  [i \in 1..5 |-> NoPlace], NoAnswer) :
      start_coords \in {NotGeocoded, Geocoded(0, 0)},
      end_coords \in {NotGeocoded} }

NotSearched == CitiesResult(<<>>, Absent, <<>>, <<>>)

InitFindCities ==
  /\ now = 0
  /\ alerts = <<>>
  /\ pc = [p \in Procs |-> "idle"]
  /\ cand = [p \in Procs |-> NoCand]
  /\ resp = [p \in Procs |-> NoResp]
  /\ markRes = NoMark
  /\ input \in FallbackEnvs \cup WaypointEnvs \cup UngeocodedEnvs
  /\ outcome = NotSearched

FindCities ==
  /\ outcome = NotSearched
  /\ outcome' = find_cities_along_route(StartCity, EndCity, input)
  /\ UNCHANGED <<now, alerts, pc, cand, resp, markRes, input>>

NextFindCities == FindCities

SpecFindCities == InitFindCities /\ [][NextFindCities]_vars

Searched == outcome # NotSearched

\* ------------------------------------------------ properties of the search
NonDecreasing(cities) ==
  \A i, j \in DOMAIN cities :
    i < j => cities[i].distance_from_start <= cities[j].distance_from_start

OnFallbackPath ==
  input.start_coords.found /\ input.end_coords.found /\ input.waypoints = <<>>

\* C22: the list find_cities_along_route returns is in order of non-decreasing
\* distance from the start, on the waypoint path, on the fallback path and
\* after the filtering by the model.
C22_OrderedByDistance == Searched => NonDecreasing(outcome.cities)

\* cities found out of order were sorted, and the model's answer then dropped
\* some and kept two or more
C22_Witness ==
  /\ Searched
  /\ ~NonDecreasing(outcome.found)
  /\ input.ai.answered
  /\ Len(outcome.cities) >= 2
  /\ Len(outcome.cities) < Len(outcome.sorted)

\* C23: the cities the search returns hold no two entries of the same name,
\* compared without regard to case, and no entry named as the start or the
\* end, on the waypoint path and on the fallback path.
C23_NoDuplicatesNoEndpoints ==
  Searched =>
    /\ \A i, j \in DOMAIN outcome.cities :
         i # j => Lower(outcome.cities[i].name) # Lower(outcome.cities[j].name)
    /\ \A i \in DOMAIN outcome.cities :
         Lower(outcome.cities[i].name) \notin {Lower(StartCity), Lower(EndCity)}

\* the entries of the table other than the start and the end
Candidates ==
  { k \in DOMAIN input.table :
      Lower(input.table[k].name) \notin {Lower(StartCity), Lower(EndCity)} }

\* entry k of the table was kept by the scan
KeptFromTable(k) ==
  \E i \in DOMAIN outcome.found :
    /\ outcome.found[i].origin = "table"
    /\ outcome.found[i].name = input.table[k].name

ToStart(pos) == calculate_distance(pos, input.start_coords.pos)
ToEnd(pos) == calculate_distance(pos, input.end_coords.pos)
TotalDistance == calculate_distance(input.start_coords.pos, input.end_coords.pos)
Detour(pos) == ToStart(pos) + ToEnd(pos) - TotalDistance

\* C24 as stated: on the fallback path an entry of the table other than the
\* start and the end is kept exactly when its detour is below the threshold.
C24_KeptIffDetourBelow ==
  Searched /\ OnFallbackPath =>
    \A k \in Candidates :
      KeptFromTable(k) <=> Detour(input.table[k].pos) < threshold_km

\* C24 as the code has it: the entry is kept exactly when it lies within the
\* threshold of the start or of the end, or its detour is below the threshold.
C24_KeptIffNearEndOrDetourBelow ==
  Searched /\ OnFallbackPath =>
    \A k \in Candidates :
      KeptFromTable(k) <=>
        \/ ToStart(input.table[k].pos) < threshold_km
        \/ ToEnd(input.table[k].pos) < threshold_km
        \/ Detour(input.table[k].pos) < threshold_km

\* an entry near the start is kept though its detour is not below the
\* threshold, one off the route is kept for its detour, and one is dropped
C24_Witness ==
  /\ Searched /\ OnFallbackPath
  /\ \E k \in Candidates :
       /\ KeptFromTable(k)
       /\ Detour(input.table[k].pos) >= threshold_km
  /\ \E k \in Candidates :
       /\ KeptFromTable(k)
       /\ ToStart(input.table[k].pos) >= threshold_km
       /\ ToEnd(input.table[k].pos) >= threshold_km
  /\ \E k \in Candidates : ~KeptFromTable(k)

\* the entries of the result that came from the table, and from interpolation
FromTable == { i \in DOMAIN outcome.found : outcome.found[i].origin = "table" }
Interpolated == { i \in DOMAIN outcome.found : outcome.found[i].origin = "interpolated" }

Interpolates == Cardinality(FromTable) < 2 /\ TotalDistance > 100

\* every interpolated point resolves to a place of its own
AllResolve ==
  /\ \A i \in DOMAIN input.reverse : input.reverse[i] # NoPlace
  /\ \A i, j \in DOMAIN input.reverse : i # j => input.reverse[i] # input.reverse[j]

\* n evenly spaced points were generated between the start and the end
EvenlySpaced(n) ==
  /\ outcome.num_points = n
  /\ AllResolve =>
       { outcome.found[i].pos : i \in Interpolated } =
         { Point(input.start_coords.pos.x
                   + ((input.end_coords.pos.x - input.start_coords.pos.x) * k) \div (n + 1),
                 input.start_coords.pos.y
                   + ((input.end_coords.pos.y - input.start_coords.pos.y) * k) \div (n + 1)) :
             k \in 1..n }

Smaller(a, b) == IF a < b THEN a ELSE b

get_route_weather_analysis(start_city, end_city, env, failing, severe) ==
  IF ~env.start_coords.found \/ ~env.end_coords.found
  THEN [success |-> FALSE, error |-> "Could not geocode start or end city",
        total_distance_km |-> 0, cities_count |-> 0, all_cities |-> <<>>,
        cities |-> <<>>, recommendation |-> "none"]
  ELSE LET total_distance ==
             calculate_distance(env.start_coords.pos, env.end_coords.pos)
           intermediate_cities ==
             find_cities_along_route(start_city, end_city, env).cities
           Stop(name, dist, is_start, is_end) ==
             [name |-> name, distance_from_start |-> dist,
              is_start |-> is_start, is_end |-> is_end]
           all_cities ==
             <<Stop(Name(start_city.key, "title"), 0, TRUE, FALSE)>>
               \o [ k \in DOMAIN intermediate_cities |->
                      Stop(intermediate_cities[k].name,
                           intermediate_cities[k].distance_from_start, FALSE, FALSE) ]
               \o <<Stop(Name(end_city.key, "title"), total_distance, FALSE, TRUE)>>
           Fetched(city) == Lower(city.name) \notin failing
           fetched == SelectSeq(all_cities, Fetched)
           city_weather ==
             [ k \in DOMAIN fetched |->
                 [city |-> fetched[k].name,
                  distance_km |-> fetched[k].distance_from_start,
                  severity |-> IF Lower(fetched[k].name) \in severe THEN "high" ELSE "low",
                  is_start |-> fetched[k].is_start,
                  is_end |-> fetched[k].is_end] ]
       IN  [success |-> TRUE, error |-> "none",
            total_distance_km |-> total_distance, cities_count |-> Len(all_cities),
            all_cities |-> all_cities, cities |-> city_weather,
            recommendation |-> generate_route_recommendation(city_weather)]

\* the analyses checked: routes of 100 and 150 km
RouteAnalysisInputs ==
  [env : { e \in FallbackEnvs \cup WaypointEnvs \cup UngeocodedEnvs :
             /\ e.end_coords.found => e.end_coords.pos.x \in {100, 150}
             /\ e.ai \in {NoAnswer, Answer({"villupuram", "town2", "kanchipuram"})}
             /\ e.reverse[1] \in {NoPlace, Name("town1", "title")}
             /\ Len(e.waypoints) <= 2 },
   failing : { {}, {"chennai"}, {"trichy"}, {"vellore"}, {"villupuram", "town1"} },
   severe : { {}, {"vellore", "kanchipuram"} }]

InitRouteAnalysis ==
  /\ now = 0
  /\ alerts = <<>>
  /\ pc = [p \in Procs |-> "idle"]
  /\ cand = [p \in Procs |-> NoCand]
  /\ resp = [p \in Procs |-> NoResp]
  /\ markRes = NoMark
  /\ input \in RouteAnalysisInputs
  /\ outcome = NotSearched

AnalyzeRoute ==
  /\ outcome = NotSearched
  /\ outcome' = get_route_weather_analysis(StartCity, EndCity, input.env,
                                           input.failing, input.severe)
  /\ UNCHANGED <<now, alerts, pc, cand, resp, markRes, input>>

NextRouteAnalysis == AnalyzeRoute

SpecRouteAnalysis == InitRouteAnalysis /\ [][NextRouteAnalysis]_vars

\* ------------------------------------------- properties of the analysis
RouteGeocoded == input.env.start_coords.found /\ input.env.end_coords.found

\* C21: a city whose weather cannot be fetched does not fail the analysis and
\* still has an entry in the city list of the response; the other cities are
\* analysed as usual.
C21_FailedCityKeepsEntry ==
  Searched /\ RouteGeocoded =>
    /\ outcome.success
    /\ \A k \in DOMAIN outcome.all_cities :
         \E i \in DOMAIN outcome.cities :
           outcome.cities[i].city = outcome.all_cities[k].name

\* the weather of every city of the route was fetched
AllFetched ==
  \A k \in DOMAIN outcome.all_cities :
    Lower(outcome.all_cities[k].name) \notin input.failing

\* C29: the city list of a successful response starts with the start city at
\* distance 0, ends with the end city at the total distance, and its
\* distances never decrease; stated for the analyses in which the weather of
\* every city was fetched.
C29_StartToEndInOrder ==
  Searched /\ outcome.success /\ AllFetched =>
    LET cities == outcome.cities
    IN  /\ cities # <<>>
        /\ cities[1].is_start /\ cities[1].distance_km = 0
        /\ cities[Len(cities)].is_end
        /\ cities[Len(cities)].distance_km = outcome.total_distance_km
        /\ \A i, j \in DOMAIN cities :
             i < j => cities[i].distance_km <= cities[j].distance_km

====
